---- MODULE Spec2Model ----
(***************************************************************************)
(* Orchestration core of the Apphud web SDK (src/src/core/index.ts):       *)
(* the readiness gate and its callback queue, the persisted event backlog  *)
(* and the selection state.  JavaScript is single threaded, so every       *)
(* action below is one run-to-completion step: a host call, a timer, or    *)
(* the continuation of an awaited promise.                                 *)
(***************************************************************************)
EXTENDS Integers, Sequences, FiniteSets, TLC

\* ------------------------------------------------------------------ bounds
MaxTrack  == 2      \* track() calls over the whole run (fresh insert ids)
MaxReload == 1      \* page reloads
MaxEmail  == 1      \* setEmail() calls
MaxForm   == 1      \* paymentForm() calls
MaxFormAgain == 1   \* further paymentForm() calls on the same page
MaxSubmit == 2      \* submissions of the payment form
MaxReset  == 1      \* reset() calls
MaxSelect == 1      \* selectPlacementProduct() calls
MaxReselect == 1    \* further selectPlacementProduct() calls on the same page
MaxNodes  == 1      \* elements of the page that carry a variable key
MaxOperate == 1     \* operateVariables() calls by the host

\* ------------------------------------------------------- JavaScript values
Undefined == "undefined"
Null      == "null"

\* obj[k] of a JavaScript object: a missing key reads as undefined
Get(o, k) == IF k \in DOMAIN o THEN o[k] ELSE Undefined
\* obj[k] = v
SetKey(o, k, v) == [x \in (DOMAIN o) \cup {k} |-> IF x = k THEN v ELSE o[x]]
\* delete obj[k]
DelKey(o, k) == [x \in (DOMAIN o) \ {k} |-> o[x]]

\* u.generateId() for user ids: the n-th fresh identifier
UidName(n) == "u" \o ToString(n)
\* u.generateId() for insert ids
EventId(n) == "e" \o ToString(n)

\* ------------------------------------------------ session data (api.createUser)
ProductA   == [base_plan_id |-> "planA", properties |-> "propsA"]
ProductB   == [base_plan_id |-> "planB", properties |-> "propsB"]
Paywall1   == [id |-> "pw1", items |-> <<ProductA, ProductB>>]
Placement1 == [identifier |-> "p1", id |-> "pl1", paywalls |-> <<Paywall1>>]
ServerUser == [id |-> "usr", placements |-> <<Placement1>>,
               payment_providers |-> <<"stripe">>]

\* `undefined` / `null` at the types User, Placement, Paywall, Product
NoUser      == [id |-> Undefined, placements |-> <<>>, payment_providers |-> <<>>]
NoPlacement == [identifier |-> Undefined, id |-> Undefined, paywalls |-> <<>>]
NoPaywall   == [id |-> Undefined, items |-> <<>>]
NoProduct   == [base_plan_id |-> Undefined, properties |-> Undefined]

\* what api.createUser may resolve to: a user, or null
Responses == {ServerUser, NoUser}

\* a session whose first placement has no paywall yet
Placement0 == [identifier |-> "p0", id |-> "pl0", paywalls |-> <<>>]
SparseUser == [id |-> "usr", placements |-> <<Placement0, Placement1>>,
               payment_providers |-> <<"stripe">>]
Sessions   == {ServerUser, SparseUser, NoUser}

\* the property bags of the products, by the value of `properties`
PropertyBags == [propsA |-> [price |-> "9.99"], propsB |-> [price |-> "19.99"]]

\* host inputs
TrackProperties == {"plain", "cyclic"}   \* "cyclic": JSON.stringify throws on it
PlacementIDs    == {"p1", "nope"}
ProductIndexes  == {0, 1, 2}
FormProducts    == {Undefined, "planX"}

\* The value of a variable data attribute after key.split(',').map(trim):
\* the number of parts, the last part as the path and, when there are three
\* parts, the first as the placement id and parseInt of the second as the index.
VariableKey(n, placementID, productIndex, path) ==
    [parts |-> n, placementID |-> placementID, productIndex |-> productIndex,
     path |-> path]
VariableKeys ==
    {VariableKey(1, Undefined, 0, "price"),      \* "price"
     VariableKey(1, Undefined, 0, "title"),      \* "title": not in the bag
     VariableKey(2, Undefined, 0, "price"),      \* "p1,price"
     VariableKey(3, "p1", 1, "price"),           \* "p1,1,price"
     VariableKey(3, "p1", 2, "price"),           \* "p1,2,price"
     VariableKey(3, "p1", -1, "price"),          \* "p1,-1,price"
     VariableKey(3, "p0", 0, "price"),           \* "p0,0,price"
     VariableKey(3, "nope", 0, "price")}         \* "nope,0,price"

\* a cookie that is not set (getCookie returns null)
NoCookie == [present |-> FALSE, value |-> <<>>]

\* the page before its scripts have inserted the checkout markup: neither the
\* #submit button nor the payment form element; `listeners` are the forms
\* whose submit handler the form element carries, `original` the text the
\* button was inserted with
EmptyPage == [submit |-> FALSE, innerText |-> "", disabled |-> FALSE,
              original |-> "", form |-> FALSE, listeners |-> <<>>]
\* the text of <button id="submit">Pay</button>
ButtonTexts == {"Pay"}

VARIABLES
    \* fields of ApphudSDK
    placements, user, currentPaymentProvider,
    _currentProduct, _currentPlacement, _currentPaywall,
    userID, isReady, queue, events, eventQueue,
    \* the heap of EventData objects, by reference (an object is shared between
    \* eventQueue, the timer closure and the queued callback that hold it)
    heap,
    \* the browser: cookies, pending timers, pending promises
    cookies, timers, deliveries, calls, docPending, initDone,
    \* fresh-value counters
    nextCb, nextObj, nextInsert, nextUid, nextCall, passes, hostCalls,
    \* history
    ran, lastDrain, reent, issued, delivered, removals, replayed,
    errors, formRuns, rejected, readyEmits,
    \* the page: the elements that carry the variable data attribute
    varNodes,
    \* history of the selection: the calls made and the variables resolved
    selects, lookups,
    \* the payment forms (StripeForm objects, in the order of their creation),
    \* the submit control and the form element of the page, the pending
    \* promises of the forms, the pending redirect timers
    forms, dom, pending, navTimers,
    \* history of the checkout: lifecycle events, confirmation requests, the
    \* submissions of the form (each with the number of forms shown before it),
    \* the assignments to document.location.href
    \* and the submit control as each failure handler and each confirmation left it
    formEvents, confirmReqs, submissions, navigations, outcomes,
    \* history of the stamping of records: the record and the user id cookie
    stamps

vars == <<placements, user, currentPaymentProvider,
          _currentProduct, _currentPlacement, _currentPaywall,
          userID, isReady, queue, events, eventQueue, heap,
          cookies, timers, deliveries, calls, docPending, initDone,
          nextCb, nextObj, nextInsert, nextUid, nextCall, passes, hostCalls,
          ran, lastDrain, reent, issued, delivered, removals, replayed,
          errors, formRuns, rejected, readyEmits,
          varNodes, selects, lookups,
          forms, dom, pending, navTimers,
          formEvents, confirmReqs, submissions, navigations, outcomes, stamps>>

\* the state as one value, so that callbacks can be run in sequence inside
\* one step; `thrown` is the exception (if any) unwinding the current stack
Cur ==
    [placements |-> placements, user |-> user,
     currentPaymentProvider |-> currentPaymentProvider,
     _currentProduct |-> _currentProduct,
     _currentPlacement |-> _currentPlacement,
     _currentPaywall |-> _currentPaywall,
     userID |-> userID, isReady |-> isReady, queue |-> queue,
     events |-> events, eventQueue |-> eventQueue, heap |-> heap,
     cookies |-> cookies, timers |-> timers, deliveries |-> deliveries,
     calls |-> calls, docPending |-> docPending, initDone |-> initDone,
     nextCb |-> nextCb, nextObj |-> nextObj, nextInsert |-> nextInsert, nextUid |-> nextUid,
     nextCall |-> nextCall, passes |-> passes, hostCalls |-> hostCalls,
     ran |-> ran, lastDrain |-> lastDrain, reent |-> reent,
     issued |-> issued, delivered |-> delivered, removals |-> removals,
     replayed |-> replayed, errors |-> errors, formRuns |-> formRuns,
     rejected |-> rejected, readyEmits |-> readyEmits,
     varNodes |-> varNodes, selects |-> selects, lookups |-> lookups,
     forms |-> forms, dom |-> dom, pending |-> pending, navTimers |-> navTimers,
     formEvents |-> formEvents, confirmReqs |-> confirmReqs,
     submissions |-> submissions, navigations |-> navigations,
     outcomes |-> outcomes, stamps |-> stamps,
     thrown |-> FALSE]

\* F at the value of e: e is evaluated once, also where ENABLED is computed
With(e, F(_)) == CHOOSE r \in {F(x) : x \in {e}} : TRUE

Commit(T) == \E S \in {T} :
    /\ placements' = S.placements
    /\ user' = S.user
    /\ currentPaymentProvider' = S.currentPaymentProvider
    /\ _currentProduct' = S._currentProduct
    /\ _currentPlacement' = S._currentPlacement
    /\ _currentPaywall' = S._currentPaywall
    /\ userID' = S.userID
    /\ isReady' = S.isReady
    /\ queue' = S.queue
    /\ events' = S.events
    /\ eventQueue' = S.eventQueue
    /\ heap' = S.heap
    /\ cookies' = S.cookies
    /\ timers' = S.timers
    /\ deliveries' = S.deliveries
    /\ calls' = S.calls
    /\ docPending' = S.docPending
    /\ initDone' = S.initDone
    /\ nextCb' = S.nextCb
    /\ nextObj' = S.nextObj
    /\ nextInsert' = S.nextInsert
    /\ nextUid' = S.nextUid
    /\ nextCall' = S.nextCall
    /\ passes' = S.passes
    /\ hostCalls' = S.hostCalls
    /\ ran' = S.ran
    /\ lastDrain' = S.lastDrain
    /\ reent' = S.reent
    /\ issued' = S.issued
    /\ delivered' = S.delivered
    /\ removals' = S.removals
    /\ replayed' = S.replayed
    /\ errors' = S.errors
    /\ formRuns' = S.formRuns
    /\ rejected' = S.rejected
    /\ readyEmits' = S.readyEmits
    /\ varNodes' = S.varNodes
    /\ selects' = S.selects
    /\ lookups' = S.lookups
    /\ forms' = S.forms
    /\ dom' = S.dom
    /\ pending' = S.pending
    /\ navTimers' = S.navTimers
    /\ formEvents' = S.formEvents
    /\ confirmReqs' = S.confirmReqs
    /\ submissions' = S.submissions
    /\ navigations' = S.navigations
    /\ outcomes' = S.outcomes
    /\ stamps' = S.stamps

\* ------------------------------------------------------------- cookies
\* getUserID(): the user id cookie, or undefined
getUserID(S) ==
    IF S.cookies.userId = Null THEN Undefined ELSE S.cookies.userId

\* JSON.stringify of one object drops the keys whose value is undefined
StringifyObject(o) ==
    [k \in {x \in DOMAIN o : o[x] # Undefined} |-> o[k]]

\* JSON.stringify(this.eventQueue): the array of the objects' JSON forms
Stringify(S) ==
    [i \in 1..Len(S.eventQueue) |-> StringifyObject(S.heap[S.eventQueue[i]])]

\* JSON.stringify throws on a cyclic structure
CanSerialise(S) ==
    \A i \in 1..Len(S.eventQueue) :
        S.heap[S.eventQueue[i]].properties # "cyclic"

\* saveEventQueue()
saveEventQueue(S) ==
    IF CanSerialise(S)
    THEN [S EXCEPT !.cookies.events = [present |-> TRUE, value |-> Stringify(S)]]
    ELSE [S EXCEPT !.thrown = TRUE]

\* JSON.parse(getCookie(EventsKey) || "[]")
ParseEvents(c) == IF c.events.present THEN c.events.value ELSE <<>>

\* ------------------------------------------------------------- selection
\* this.placements.find(elm => elm.identifier === id)
findPlacementByID(S, id) ==
    LET hits == {i \in 1..Len(S.placements) : S.placements[i].identifier = id}
    IN  IF hits = {} THEN NoPlacement
        ELSE S.placements[CHOOSE i \in hits : \A j \in hits : i <= j]

\* items[productIndex] of a JavaScript array (0-based, undefined out of range)
ItemAt(items, productIndex) ==
    IF productIndex >= 0 /\ productIndex < Len(items)
    THEN items[productIndex + 1] ELSE NoProduct

\* setCurrentItems that forgets the resolved paywall and product when the
\* placement is not found
setCurrentItemsClearing(S, placementID, productIndex) ==
    LET p == findPlacementByID(S, placementID)
    IN  IF p # NoPlacement /\ Len(p.paywalls) > 0
        THEN [S EXCEPT !._currentPlacement = p,
                       !._currentPaywall = p.paywalls[1],
                       !._currentProduct = ItemAt(p.paywalls[1].items, productIndex)]
        ELSE [S EXCEPT !._currentPlacement = p,
                       !._currentPaywall = NoPaywall,
                       !._currentProduct = NoProduct]

setCurrentItems(S, placementID, productIndex) ==
    LET p  == findPlacementByID(S, placementID)
        S1 == [S EXCEPT !._currentPlacement = p]
    IN  IF p # NoPlacement /\ Len(p.paywalls) > 0
        THEN [S1 EXCEPT !._currentPaywall = p.paywalls[1],
                        !._currentProduct = ItemAt(p.paywalls[1].items, productIndex)]
        ELSE S1

currentPlacement(S) ==
    IF S._currentPlacement # NoPlacement THEN S._currentPlacement
    ELSE IF Len(S.placements) > 0 THEN S.placements[1]
    ELSE NoPlacement

currentPaywall(S) ==
    IF S._currentPaywall # NoPaywall THEN S._currentPaywall
    ELSE LET p == currentPlacement(S)
         IN  IF p # NoPlacement /\ Len(p.paywalls) > 0 THEN p.paywalls[1]
             ELSE NoPaywall

\* currentProduct without the fallback to the first item of the paywall
currentProductExplicitOnly(S) == S._currentProduct

currentProduct(S) ==
    IF S._currentProduct # NoProduct THEN S._currentProduct
    ELSE LET w == currentPaywall(S)
         IN  IF w # NoPaywall THEN ItemAt(w.items, 0) ELSE NoProduct

\* The selection cookie holds `${placementID},${productIndex}`; its value is
\* kept as the list of its comma separated parts (the placement ids of the
\* model hold no comma) and the index part as the number parseInt gives back.
getSavedPlacementProductIndex(S) ==
    LET c == S.cookies.selected
    IN  IF c.present /\ Len(c.value) = 2
        THEN [placementID |-> c.value[1], productIndex |-> c.value[2]]
        ELSE [placementID |-> Undefined, productIndex |-> 0]

\* u.getValueByPath(product.properties, path): the value at the path of the
\* bag, or no value
getValueByPath(properties, path) ==
    LET bag == PropertyBags[properties]
    IN  IF path \in DOMAIN bag THEN bag[path] ELSE Null

\* readVariableValueByKeyPath(key): the value returned, or the TypeError of
\* `paywall!.items` when the placement found has no paywall
readVariableValueByKeyPath(S, key) ==
    LET saved == getSavedPlacementProductIndex(S)
        sel   == IF key.parts = 3
                 THEN IF key.productIndex < 0 THEN saved
                      ELSE [placementID |-> key.placementID,
                            productIndex |-> key.productIndex]
                 ELSE IF key.parts = 1 THEN saved
                 ELSE [placementID |-> Undefined, productIndex |-> 0]
        placement == findPlacementByID(S, sel.placementID)
        product   == ItemAt(placement.paywalls[1].items, sel.productIndex)
    IN  IF placement = NoPlacement THEN [value |-> Null, threw |-> FALSE]
        ELSE IF Len(placement.paywalls) = 0 THEN [value |-> Null, threw |-> TRUE]
        ELSE IF product # NoProduct /\ product.properties # Undefined
        THEN [value |-> getValueByPath(product.properties, key.path), threw |-> FALSE]
        ELSE [value |-> Null, threw |-> FALSE]

\* ------------------------------------------------- the readiness gate
\* the exception (if any) has left the stack when the step ends
Settle(S) == [S EXCEPT !.thrown = FALSE]

InsertIds(json) == {json[i].insert_id : i \in 1..Len(json)}

RECURSIVE RunCallback(_, _, _)
RECURSIVE ready(_, _, _, _, _)
RECURSIVE track(_, _, _)

\* A host listener for payment_form_initialized, registered with on(): it
\* tracks an event.  It runs inside the async show(), which turns what it
\* throws into a rejected promise.
HostListener(S, p) ==
    IF "payment_form_initialized" \in S.events
    THEN Settle(track(S, "plain", p))
    ELSE S

\* ------------------------------------------------- StripeForm
\* the fields of a StripeForm as the class declares them.  `subscription` and
\* `elements` hold the client secret of the subscription they were made for;
\* `trace` is the history of the attempt in the states of the checkout and
\* `created` what became of its create-subscription call.
NewForm ==
    [stripe |-> Null, elements |-> Undefined, paymentElement |-> FALSE,
     mounted |-> FALSE, reported |-> FALSE, subscription |-> Null,
     submit |-> FALSE, submitReadyText |-> "Subscribe", trace |-> <<>>,
     created |-> "no"]
submitProcessingText == "Please wait..."

\* a pending promise of form f: loadStripe, api.createSubscription,
\* elements.submit or stripe.confirmPayment (of submission sub)
Pending(kind, f, sub) == [kind |-> kind, form |-> f, sub |-> sub]

\* api.createSubscription resolves to a new subscription: its client secret
ClientSecret(f) == "cs" \o ToString(f)

\* this.formBuilder.emit(name, ...): f is the form, sub the submission (0: none)
emit(S, name, f, sub) ==
    [S EXCEPT !.formEvents = @ \cup {[name |-> name, form |-> f, sub |-> sub]}]

\* the submit control as a handler of form f leaves it
Outcome(S, f, sub, error) ==
    [S EXCEPT !.outcomes = @ \cup {[form |-> f, sub |-> sub, error |-> error,
                                    disabled |-> S.dom.disabled,
                                    innerText |-> S.dom.innerText]}]

\* the attempt of form f enters a state of the checkout
Enter(S, f, state) == [S EXCEPT !.forms[f].trace = Append(@, state)]

\* constructor: documentReady(async () => this.stripe = await loadStripe(...))
StripeForm(S) ==
    [S EXCEPT !.forms = Append(@, NewForm),
              !.pending = @ \cup {Pending("load", Len(S.forms) + 1, 0)}]

setButtonState(S, f, state) ==
    IF ~S.forms[f].submit THEN S
    ELSE CASE state = "loading" -> [S EXCEPT !.dom.disabled = TRUE]
           [] state = "ready"   -> [S EXCEPT !.dom.disabled = FALSE,
                                             !.dom.innerText = S.forms[f].submitReadyText]
           [] OTHER             -> [S EXCEPT !.dom.disabled = TRUE,
                                             !.dom.innerText = submitProcessingText]

\* show() without the return on a missing submit control
showWithoutControlCheck(S, f, p) ==
    LET S1 == HostListener(emit(S, "payment_form_initialized", f, 0), p)
        S2 == setButtonState([S1 EXCEPT !.forms[f].submit = S1.dom.submit], f, "loading")
        S3 == IF S2.dom.innerText # ""
              THEN [S2 EXCEPT !.forms[f].submitReadyText = S2.dom.innerText]
              ELSE S2
    IN  Enter([S3 EXCEPT !.pending = @ \cup {Pending("create", f, 0)}],
              f, "creating_subscription")

\* show() up to `await this.createSubscription(...)`
show(S, f, p) ==
    LET S1 == HostListener(emit(S, "payment_form_initialized", f, 0), p)
        S2 == setButtonState([S1 EXCEPT !.forms[f].submit = TRUE], f, "loading")
        S3 == IF S2.dom.innerText # ""
              THEN [S2 EXCEPT !.forms[f].submitReadyText = S2.dom.innerText]
              ELSE S2
    IN  IF ~S1.dom.submit THEN S1
        ELSE Enter([S3 EXCEPT !.pending = @ \cup {Pending("create", f, 0)}],
                   f, "creating_subscription")

\* initStripe(options)
initStripe(S, f) ==
    IF S.forms[f].stripe = Null THEN S
    ELSE [S EXCEPT !.forms[f].elements = S.forms[f].subscription,
                   !.forms[f].paymentElement = TRUE]

\* setupForm(options): form.addEventListener('submit', ...)
setupForm(S, f) ==
    IF ~S.dom.form THEN S
    ELSE [S EXCEPT !.dom.listeners = Append(@, f)]

\* the catch block of show(): the subscription was not created
showCatch(S, f) ==
    Outcome(Enter(emit(setButtonState(S, f, "ready"), "payment_failure", f, 0), f, "failed"),
            f, 0, TRUE)

\* show() after `await this.createSubscription(...)` has returned
showResume(S, f) ==
    LET S1 == initStripe(Enter(S, f, "awaiting_provider_init"), f)
    IN  IF ~S1.forms[f].paymentElement THEN S1
        ELSE [setupForm(S1, f) EXCEPT !.forms[f].mounted = TRUE]

\* createSubscription() without the check of the value the api call resolved to
createSubscriptionUnchecked(S, f, subscription) ==
    showResume([S EXCEPT !.forms[f].subscription = subscription], f)

\* createSubscription(): the api call resolved to subscription (null: none)
createSubscriptionThen(S, f, subscription) ==
    IF subscription = Null THEN showCatch(S, f)
    ELSE showResume([S EXCEPT !.forms[f].subscription = subscription], f)

\* a submit listener that asks the api for a subscription again
submitListenerRecreating(S, f, sub) ==
    LET S1 == setButtonState(S, f, "processing")
    IN  IF S1.forms[f].stripe = Null \/ S1.forms[f].elements = Undefined THEN S1
        ELSE Enter([S1 EXCEPT !.pending = @ \cup {Pending("create", f, sub),
                                                  Pending("validate", f, sub)}],
                   f, "submitting")

\* the submit listener of form f up to `await this.elements?.submit()`
submitListener(S, f, sub) ==
    LET S1 == setButtonState(S, f, "processing")
    IN  IF S1.forms[f].stripe = Null \/ S1.forms[f].elements = Undefined THEN S1
        ELSE Enter([S1 EXCEPT !.pending = @ \cup {Pending("validate", f, sub)}],
                   f, "submitting")

\* the submit event of the form element runs every listener it carries
RECURSIVE dispatchSubmit(_, _, _)
dispatchSubmit(S, listeners, sub) ==
    IF listeners = <<>> THEN S
    ELSE dispatchSubmit(submitListener(S, Head(listeners), sub), Tail(listeners), sub)

\* the listener after elements.submit(): stripe.confirmPayment({elements, clientSecret})
confirmPayment(S, f, sub) ==
    [S EXCEPT !.pending = @ \cup {Pending("confirm", f, sub)},
              !.confirmReqs = @ \cup {[form |-> f, sub |-> sub,
                                        clientSecret |-> S.forms[f].subscription,
                                        elements |-> S.forms[f].elements]}]

\* the listener that emits payment_success and sets no redirect timer
confirmThenNoRedirect(S, f, sub, error) ==
    IF error
    THEN Outcome(Enter(setButtonState(emit(S, "payment_failure", f, sub), f, "ready"),
                       f, "failed"),
                 f, sub, TRUE)
    ELSE Outcome(Enter(emit(S, "payment_success", f, sub), f, "confirmed"), f, sub, FALSE)

\* the listener after confirmPayment has returned {error}
confirmThen(S, f, sub, error) ==
    IF error
    THEN Outcome(Enter(setButtonState(emit(S, "payment_failure", f, sub), f, "ready"),
                       f, "failed"),
                 f, sub, TRUE)
    ELSE Outcome(Enter([emit(S, "payment_success", f, sub) EXCEPT !.navTimers = @ + 1],
                       f, "confirmed"),
                 f, sub, FALSE)

\* FormBuilder.show(): creates the provider form and forwards to its show(),
\* which first emits payment_form_initialized (stripeForm.ts line 51)
builderShow(S, p) == show(StripeForm(S), Len(S.forms) + 1, p)

\* the callback of track(): stamp, append, persist, schedule the send
EnqueueCallback(S, ev) ==
    LET uid == getUserID(S)
        o   == SetKey(SetKey(S.heap[ev], "user_id", uid), "device_id", uid)
        S1  == [S EXCEPT !.heap[ev] = o, !.eventQueue = Append(@, ev),
                         !.stamps = @ \cup {[insert_id |-> o.insert_id,
                                              cookie |-> S.cookies.userId]}]
        S2  == saveEventQueue(S1)
    IN  IF S2.thrown THEN S2 ELSE [S2 EXCEPT !.timers = Append(@, ev)]

\* eventData(event) and api.createEvent(...): the callback of trackEvent()
SendCallback(S, ev) ==
    LET o    == S.heap[ev]
        data == [ev |-> ev, insert_id |-> o.insert_id,
                 device_id |-> Get(o, "device_id"), user_id |-> Get(o, "user_id")]
    IN  [S EXCEPT !.heap[ev] = DelKey(DelKey(o, "device_id"), "user_id"),
                  !.deliveries = @ \cup {data},
                  !.issued = @ \cup {[insert_id |-> o.insert_id,
                                      device_id |-> data.device_id,
                                      persisted |-> o.insert_id \in InsertIds(ParseEvents(S.cookies))]}]

\* the callback of paymentForm(options, product)
FormCallback(S, cb, p) ==
    LET run(shown) == [id |-> cb.id, pass |-> p, placements |-> S.placements,
                       session |-> S.user.placements, shown |-> shown]
        fail(msg) == [S EXCEPT !.errors = @ \cup {msg},
                               !.formRuns = Append(@, run(FALSE))]
        productId == IF cb.arg # Undefined THEN cb.arg
                     ELSE currentProduct(S).base_plan_id
    IN  IF currentProduct(S) = NoProduct THEN fail("Payment form: product is required")
        ELSE IF currentPaywall(S) = NoPaywall THEN fail("Payment form: paywall is required")
        ELSE IF currentPlacement(S) = NoPlacement THEN fail("Payment form: placement is required")
        ELSE IF productId = Undefined THEN fail("product is absent")
        ELSE IF S.currentPaymentProvider = Undefined THEN fail("payment provider is absent")
        ELSE IF S.user = NoUser THEN fail("Payment form: no user")
        ELSE builderShow([S EXCEPT !.formRuns = Append(@, run(TRUE))], p)

\* the callback of setPlacementsAndProducts()
PlacementsCallback(S) ==
    LET S1    == [S EXCEPT !.placements = S.user.placements]
        saved == getSavedPlacementProductIndex(S1)
    IN  IF saved.placementID # Undefined
        THEN setCurrentItems(S1, saved.placementID, saved.productIndex)
        ELSE S1

\* the callback of setPaymentProvider()
ProviderCallback(S) ==
    IF Len(S.user.payment_providers) > 0
    THEN [S EXCEPT !.currentPaymentProvider = S.user.payment_providers[1]]
    ELSE S

\* the callback of operateVariables(): vars.forEach(elm => ...) over the
\* elements of the page that carry a variable key
RECURSIVE operateNodes(_, _)
operateNodes(S, nodes) ==
    IF nodes = <<>> \/ S.thrown THEN S
    ELSE LET r == readVariableValueByKeyPath(S, Head(nodes))
         IN  operateNodes([S EXCEPT !.lookups = @ \cup
                                        {[key |-> Head(nodes), value |-> r.value,
                                          threw |-> r.threw,
                                          current |-> currentProduct(S),
                                          saved |-> getSavedPlacementProductIndex(S).placementID]},
                                    !.thrown = r.threw],
                          Tail(nodes))

VariablesCallback(S) == operateNodes(S, S.varNodes)

\* callback(): p is the setReady() pass the call is made in, 0 outside a drain
RunCallback(S0, cb, p) ==
    LET S == [S0 EXCEPT !.ran = Append(@, [id |-> cb.id, pass |-> p])]
    IN  CASE cb.kind = "enqueue"    -> EnqueueCallback(S, cb.ev)
          [] cb.kind = "send"       -> SendCallback(S, cb.ev)
          [] cb.kind = "form"       -> FormCallback(S, cb, p)
          [] cb.kind = "placements" -> PlacementsCallback(S)
          [] cb.kind = "provider"   -> ProviderCallback(S)
          [] cb.kind = "variables"  -> VariablesCallback(S)
          [] OTHER                  -> S   \* operateAttribution

\* ready(callback).  reent records the calls made from inside a drain.
ready(S, kind, ev, arg, p) ==
    LET cb == [id |-> S.nextCb, kind |-> kind, ev |-> ev, arg |-> arg]
        S1 == [S EXCEPT !.nextCb = @ + 1,
                        !.reent = IF p > 0
                                  THEN @ \cup {[id |-> cb.id, pass |-> p,
                                                behind |-> {S.queue[i].id : i \in 1..Len(S.queue)}]}
                                  ELSE @]
    IN  IF S.isReady THEN RunCallback(S1, cb, p)
        ELSE [S1 EXCEPT !.queue = Append(@, cb)]

\* track(name, properties, userProperties)
track(S, properties, p) ==
    LET o  == [insert_id |-> EventId(S.nextInsert), properties |-> properties]
        S1 == [S EXCEPT !.heap = (S.nextObj :> o) @@ @,
                        !.nextObj = @ + 1, !.nextInsert = @ + 1]
    IN  ready(S1, "enqueue", S.nextObj, Undefined, p)

\* trackEvent(event)
trackEvent(S, ev) == ready(S, "send", ev, Undefined, 0)

\* while ((callback = this.queue.shift())) callback()
RECURSIVE Drain(_, _)
Drain(T, p) ==
    With(T, LAMBDA S :
        IF S.thrown \/ S.queue = <<>> THEN S
        ELSE Drain(RunCallback([S EXCEPT !.queue = Tail(@)], Head(S.queue), p), p))

\* setReady emitting "ready" on every pass, the refresh passes included
setReadyEmitsAlways(S, initial) ==
    LET p == S.passes + 1
        D == Drain([S EXCEPT !.passes = p], p)
        E == IF D.thrown THEN D
             ELSE [D EXCEPT !.isReady = TRUE, !.readyEmits = @ + 1]
    IN  [E EXCEPT !.lastDrain = [pass |-> p, threw |-> D.thrown,
                                 left |-> Len(E.queue), open |-> E.isReady]]

\* setReady(initial)
setReady(S, initial) ==
    LET p == S.passes + 1
        D == Drain([S EXCEPT !.passes = p], p)
        E == IF D.thrown THEN D
             ELSE [D EXCEPT !.isReady = TRUE,
                            !.readyEmits = IF initial THEN @ + 1 ELSE @]
    IN  [E EXCEPT !.lastDrain = [pass |-> p, threw |-> D.thrown,
                                 left |-> Len(E.queue), open |-> E.isReady]]

\* createUser(params, ready) up to its first await
createUser(S, who, readyFlag) ==
    [S EXCEPT !.isReady = readyFlag,
              !.userID = getUserID(S),
              !.calls = @ \cup {[id |-> S.nextCall, who |-> who, pc |-> "sha"]},
              !.nextCall = @ + 1]

\* createUser from the first await to the api.createUser call
createUserResume(S, c) ==
    LET S1 == IF S.userID = Undefined
              THEN [S EXCEPT !.userID = UidName(S.nextUid), !.nextUid = @ + 1,
                             !.cookies.userId = UidName(S.nextUid)]
              ELSE S
    IN  [S1 EXCEPT !.calls = (@ \ {c}) \cup {[c EXCEPT !.pc = "api"]}]

\* initializeApp(initial) after `await this.createUser(null, false)`
initializeAppResume(S, resp, initial) ==
    With(IF resp # NoUser THEN [S EXCEPT !.user = resp] ELSE S, LAMBDA S0 :
    With(ready(S0, "placements", 0, Undefined, 0), LAMBDA S1 :
    With(IF S1.thrown THEN S1 ELSE ready(S1, "provider", 0, Undefined, 0), LAMBDA S2 :
    With(IF S2.thrown THEN S2 ELSE ready(S2, "variables", 0, Undefined, 0), LAMBDA S3 :
    With(IF S3.thrown THEN S3 ELSE ready(S3, "attribution", 0, Undefined, 0), LAMBDA S4 :
        IF S4.thrown THEN S4 ELSE setReady(S4, initial))))))

\* ------------------------------------------------------------- page load
\* the state of a freshly loaded page: the fields as the class declares them,
\* nothing pending; the cookies and the generators of unique ids carry over
FreshPage(c, insert, uid, hc) ==
    [placements |-> <<>>, user |-> NoUser, currentPaymentProvider |-> Undefined,
     _currentProduct |-> NoProduct, _currentPlacement |-> NoPlacement,
     _currentPaywall |-> NoPaywall,
     userID |-> Undefined, isReady |-> FALSE, queue |-> <<>>,
     events |-> {}, eventQueue |-> <<>>, heap |-> <<>>,
     cookies |-> c, timers |-> <<>>, deliveries |-> {},
     calls |-> {}, docPending |-> FALSE, initDone |-> FALSE,
     nextCb |-> 1, nextObj |-> 1, nextInsert |-> insert, nextUid |-> uid,
     nextCall |-> 1, passes |-> 0, hostCalls |-> hc,
     ran |-> <<>>,
     lastDrain |-> [pass |-> 0, threw |-> FALSE, left |-> 0, open |-> FALSE],
     reent |-> {}, issued |-> {}, delivered |-> {}, removals |-> {},
     replayed |-> {}, errors |-> {}, formRuns |-> <<>>,
     rejected |-> FALSE, readyEmits |-> 0,
     varNodes |-> <<>>, selects |-> <<>>, lookups |-> {},
     forms |-> <<>>, dom |-> EmptyPage, pending |-> {}, navTimers |-> 0,
     formEvents |-> {}, confirmReqs |-> {}, submissions |-> <<>>, navigations |-> 0,
     outcomes |-> {}, stamps |-> {},
     thrown |-> FALSE]

NoCookies == [userId |-> Null, events |-> NoCookie, selected |-> NoCookie]
NoCalls   == [track |-> 0, email |-> 0, form |-> 0, reset |-> 0, select |-> 0,
              reload |-> 0, vars |-> 0]

\* the state after `new ApphudSDK()` in a browser without cookies
Init ==
    LET F == FreshPage(NoCookies, 1, 1, NoCalls)
    IN  /\ placements = F.placements
        /\ user = F.user
        /\ currentPaymentProvider = F.currentPaymentProvider
        /\ _currentProduct = F._currentProduct
        /\ _currentPlacement = F._currentPlacement
        /\ _currentPaywall = F._currentPaywall
        /\ userID = F.userID
        /\ isReady = F.isReady
        /\ queue = F.queue
        /\ events = F.events
        /\ eventQueue = F.eventQueue
        /\ heap = F.heap
        /\ cookies = F.cookies
        /\ timers = F.timers
        /\ deliveries = F.deliveries
        /\ calls = F.calls
        /\ docPending = F.docPending
        /\ initDone = F.initDone
        /\ nextCb = F.nextCb
        /\ nextObj = F.nextObj
        /\ nextInsert = F.nextInsert
        /\ nextUid = F.nextUid
        /\ nextCall = F.nextCall
        /\ passes = F.passes
        /\ hostCalls = F.hostCalls
        /\ ran = F.ran
        /\ lastDrain = F.lastDrain
        /\ reent = F.reent
        /\ issued = F.issued
        /\ delivered = F.delivered
        /\ removals = F.removals
        /\ replayed = F.replayed
        /\ errors = F.errors
        /\ formRuns = F.formRuns
        /\ rejected = F.rejected
        /\ readyEmits = F.readyEmits
        /\ varNodes = F.varNodes
        /\ selects = F.selects
        /\ lookups = F.lookups
        /\ forms = F.forms
        /\ dom = F.dom
        /\ pending = F.pending
        /\ navTimers = F.navTimers
        /\ formEvents = F.formEvents
        /\ confirmReqs = F.confirmReqs
        /\ submissions = F.submissions
        /\ navigations = F.navigations
        /\ outcomes = F.outcomes
        /\ stamps = F.stamps

\* ------------------------------------------------------------- actions
RECURSIVE trackAll(_, _)
\* for (i...) this.trackEvent(this.eventQueue[i])
trackAll(S, refs) ==
    IF refs = <<>> \/ S.thrown THEN S
    ELSE trackAll(trackEvent(S, Head(refs)), Tail(refs))

\* init(options): parse the persisted backlog into new objects, resubmit
\* each, and hand initializeApp to documentReady
initBody(S) ==
    LET json == ParseEvents(S.cookies)
        refs == [i \in 1..Len(json) |-> S.nextObj + i - 1]
        new  == {refs[i] : i \in 1..Len(json)}
        S1   == [S EXCEPT !.eventQueue = refs,
                          !.heap = [r \in (DOMAIN S.heap) \cup new |->
                                      IF r \in new THEN json[r - S.nextObj + 1]
                                      ELSE S.heap[r]],
                          !.nextObj = @ + Len(json),
                          !.replayed = InsertIds(json)]
        S2   == trackAll(S1, refs)
        S3   == IF S2.thrown
                THEN [Settle(S2) EXCEPT !.errors = @ \cup {"init"}]
                ELSE S2
    IN  [S3 EXCEPT !.docPending = TRUE, !.initDone = TRUE]

init ==
    /\ ~initDone
    /\ Commit(Settle(initBody(Cur)))

\* the document is ready: `await this.initializeApp()` runs to createUser's await
DocumentReady ==
    /\ docPending
    /\ Commit(createUser([Cur EXCEPT !.docPending = FALSE], "init", FALSE))

\* the host calls track(name, properties, userProperties)
Track ==
    /\ hostCalls.track < MaxTrack
    /\ \E properties \in TrackProperties :
          Commit(Settle(track([Cur EXCEPT !.hostCalls.track = @ + 1], properties, 0)))

\* the 1000 ms timer of a track() callback fires (timers of equal delay fire
\* in the order they were set)
TimerFires ==
    /\ timers # <<>>
    /\ Commit(Settle(trackEvent([Cur EXCEPT !.timers = Tail(@)], Head(timers))))

setEmail ==
    /\ hostCalls.email < MaxEmail
    /\ Commit(createUser([Cur EXCEPT !.hostCalls.email = @ + 1], "email", TRUE))

\* generateSHA256 resolves
ShaResolves ==
    \E c \in calls :
        /\ c.pc = "sha"
        /\ Commit(createUserResume(Cur, c))

\* api.createUser resolves: setEmail or initializeApp continues
CreateUserResolves ==
    \E c \in calls, resp \in Responses :
        /\ c.pc = "api"
        /\ LET S == [Cur EXCEPT !.calls = @ \ {c}]
           IN  IF c.who = "email"
               THEN Commit(IF resp # NoUser THEN [S EXCEPT !.user = resp] ELSE S)
               ELSE Commit(Settle(initializeAppResume(S, resp, c.who = "init")))

\* api.createUser rejects: nothing in the SDK catches it
CreateUserRejects ==
    \E c \in calls :
        /\ c.pc = "api"
        /\ Commit([Cur EXCEPT !.calls = @ \ {c}, !.rejected = TRUE])

\* the .then handler of api.createEvent in trackEvent
createEventThen(S, d) ==
    LET hits == {i \in 1..Len(S.eventQueue) :
                    Get(S.heap[S.eventQueue[i]], "id") = Get(S.heap[d.ev], "id")}
        i    == CHOOSE k \in hits : \A j \in hits : k <= j
        S1   == IF hits = {} THEN S
                ELSE [S EXCEPT !.eventQueue = SubSeq(@, 1, i - 1) \o SubSeq(@, i + 1, Len(@)),
                               !.removals = @ \cup {[by |-> d.insert_id,
                                                     removed |-> S.heap[S.eventQueue[i]].insert_id]}]
        S2   == saveEventQueue(S1)
    IN  IF S2.thrown THEN S2 ELSE createUser(S2, "refresh", FALSE)

CreateEventResolves ==
    \E d \in deliveries :
        Commit(Settle(createEventThen([Cur EXCEPT !.deliveries = @ \ {d},
                                                  !.delivered = @ \cup {d.insert_id}], d)))

\* api.createEvent rejects: there is no catch handler
CreateEventRejects ==
    \E d \in deliveries :
        Commit([Cur EXCEPT !.deliveries = @ \ {d}])

paymentForm ==
    /\ hostCalls.form < MaxForm
    /\ \E product \in FormProducts :
          Commit(Settle(ready([Cur EXCEPT !.hostCalls.form = @ + 1],
                              "form", 0, product, 0)))

\* selectPlacementProduct(placementID, productIndex)
selectBody(placementID, productIndex) ==
          LET S == setCurrentItems([Cur EXCEPT !.hostCalls.select = @ + 1],
                                   placementID, productIndex)
          IN  Commit([S EXCEPT !.cookies.selected =
                          [present |-> TRUE, value |-> <<placementID, productIndex>>],
                               !.selects = Append(@,
                                   [placementID |-> placementID,
                                    productIndex |-> productIndex,
                                    placements |-> placements,
                                    before |-> currentProduct(Cur),
                                    explicit |-> S._currentProduct,
                                    after |-> currentProduct(S)])])

selectPlacementProduct ==
    /\ hostCalls.select < MaxSelect
    /\ \E placementID \in PlacementIDs, productIndex \in ProductIndexes :
          selectBody(placementID, productIndex)

\* the host changes the selection again
selectPlacementProductAgain ==
    /\ hostCalls.select >= MaxSelect
    /\ hostCalls.select < MaxSelect + MaxReselect
    /\ \E placementID \in PlacementIDs, productIndex \in ProductIndexes :
          selectBody(placementID, productIndex)

\* the host calls operateVariables()
operateVariables ==
    /\ hostCalls.vars < MaxOperate
    /\ Commit(Settle(ready([Cur EXCEPT !.hostCalls.vars = @ + 1],
                           "variables", 0, Undefined, 0)))

\* a script of the page inserts an element that carries a variable key
PageAddsVariable ==
    /\ Len(varNodes) < MaxNodes
    /\ \E key \in VariableKeys :
          Commit([Cur EXCEPT !.varNodes = Append(@, key)])

\* api.createUser resolves to any of the sessions
CreateUserResolvesSession ==
    \E c \in calls, resp \in Sessions :
        /\ c.pc = "api"
        /\ LET S == [Cur EXCEPT !.calls = @ \ {c}]
           IN  IF c.who = "email"
               THEN Commit(IF resp # NoUser THEN [S EXCEPT !.user = resp] ELSE S)
               ELSE Commit(Settle(initializeAppResume(S, resp, c.who = "init")))

reset ==
    /\ hostCalls.reset < MaxReset
    /\ Commit([Cur EXCEPT !.hostCalls.reset = @ + 1,
                          !.cookies.userId = Null,
                          !.cookies.events = NoCookie])

\* the host shows the payment form again
paymentFormAgain ==
    /\ hostCalls.form >= MaxForm
    /\ hostCalls.form < MaxForm + MaxFormAgain
    /\ \E product \in FormProducts :
          Commit(Settle(ready([Cur EXCEPT !.hostCalls.form = @ + 1],
                              "form", 0, product, 0)))

\* a script of the page inserts <button id="submit">
PageAddsSubmit ==
    /\ ~dom.submit
    /\ \E text \in ButtonTexts :
          Commit([Cur EXCEPT !.dom.submit = TRUE, !.dom.innerText = text,
                             !.dom.original = text])

\* a script of the page inserts the payment form element
PageAddsForm ==
    /\ ~dom.form
    /\ Commit([Cur EXCEPT !.dom.form = TRUE])

\* loadStripe resolves: to the Stripe object, or to null
LoadStripeResolves ==
    \E q \in pending : \E stripe \in {"stripe", Null} :
        /\ q.kind = "load"
        /\ Commit([Cur EXCEPT !.pending = @ \ {q}, !.forms[q.form].stripe = stripe])

\* loadStripe rejects (the script could not be loaded)
LoadStripeRejects ==
    \E q \in pending :
        /\ q.kind = "load"
        /\ Commit([Cur EXCEPT !.pending = @ \ {q}])

\* api.createSubscription resolves: to a subscription, or to null
CreateSubscriptionResolves ==
    \E q \in pending : \E subscription \in {ClientSecret(q.form), Null} :
        /\ q.kind = "create"
        /\ Commit(createSubscriptionThen(
                      [Cur EXCEPT !.pending = @ \ {q},
                                  !.forms[q.form].created =
                                      IF subscription = Null THEN "failed" ELSE "yes"],
                      q.form, subscription))

CreateSubscriptionRejects ==
    \E q \in pending :
        /\ q.kind = "create"
        /\ Commit(showCatch([Cur EXCEPT !.pending = @ \ {q},
                                        !.forms[q.form].created = "failed"], q.form))

\* the payment element reports 'ready'
ProviderReady ==
    \E f \in 1..Len(forms) :
        /\ forms[f].mounted /\ ~forms[f].reported
        /\ Commit(Enter(emit(setButtonState([Cur EXCEPT !.forms[f].reported = TRUE], f, "ready"),
                             "payment_form_ready", f, 0),
                        f, "form_ready"))

\* the payment element reports 'loaderror'
ProviderLoadError ==
    \E f \in 1..Len(forms) :
        /\ forms[f].mounted /\ ~forms[f].reported
        /\ Commit(setButtonState([Cur EXCEPT !.forms[f].reported = TRUE], f, "ready"))

\* the user submits the payment form with its enabled submit control
Submit ==
    /\ Len(submissions) < MaxSubmit
    /\ dom.form /\ dom.listeners # <<>> /\ dom.submit /\ ~dom.disabled
    /\ Commit(dispatchSubmit([Cur EXCEPT !.submissions = Append(@, Len(forms))],
                              dom.listeners, Len(submissions) + 1))

\* elements.submit() resolves
ElementsSubmitResolves ==
    \E q \in pending :
        /\ q.kind = "validate"
        /\ Commit(confirmPayment([Cur EXCEPT !.pending = @ \ {q}], q.form, q.sub))

\* stripe.confirmPayment resolves, with or without an error
ConfirmPaymentResolves ==
    \E q \in pending : \E error \in BOOLEAN :
        /\ q.kind = "confirm"
        /\ Commit(confirmThen([Cur EXCEPT !.pending = @ \ {q}], q.form, q.sub, error))

\* a redirect timer fires: document.location.href = ...
RedirectFires ==
    /\ navTimers > 0
    /\ Commit([Cur EXCEPT !.navTimers = @ - 1, !.navigations = @ + 1])

\* on("payment_form_initialized", listener) by the host
on ==
    /\ "payment_form_initialized" \notin events
    /\ Commit([Cur EXCEPT !.events = @ \cup {"payment_form_initialized"}])

\* the page is left and loaded again: only the cookies survive
Reload ==
    /\ hostCalls.reload < MaxReload
    /\ Commit([FreshPage(cookies, nextInsert, nextUid,
                         [hostCalls EXCEPT !.reload = @ + 1])
                  EXCEPT !.stamps = stamps])

\* One page load: bootstrap, tracking, delivery, the session refresh after
\* each delivery, and the payment form with a host listener.
Next ==
    \/ init
    \/ DocumentReady
    \/ Track
    \/ TimerFires
    \/ ShaResolves
    \/ CreateUserResolves
    \/ CreateUserRejects
    \/ CreateEventResolves
    \/ CreateEventRejects
    \/ paymentForm
    \/ on

Spec == Init /\ [][Next]_vars

\* The event backlog over page loads: tracking, delivery, reset() and the
\* reload of the page, after which init() replays the persisted backlog.
NextLoad ==
    \/ init
    \/ DocumentReady
    \/ Track
    \/ TimerFires
    \/ ShaResolves
    \/ CreateUserResolves
    \/ CreateUserRejects
    \/ CreateEventResolves
    \/ CreateEventRejects
    \/ reset
    \/ Reload

SpecLoad == Init /\ [][NextLoad]_vars

\* The readiness gate of one page load under every host call that reaches it:
\* init, setEmail, track, paymentForm and selectPlacementProduct, with the
\* create-user calls completing in any order.
NextGate ==
    \/ init
    \/ DocumentReady
    \/ Track
    \/ setEmail
    \/ paymentForm
    \/ selectPlacementProduct
    \/ ShaResolves
    \/ CreateUserResolves
    \/ CreateUserRejects

SpecGate == Init /\ [][NextGate]_vars

\* The selection state of one page load: bootstrap with any session, the
\* selection calls of the host, and the variables of the page resolved at
\* bootstrap and on operateVariables().
NextSelect ==
    \/ init
    \/ DocumentReady
    \/ ShaResolves
    \/ CreateUserResolvesSession
    \/ selectPlacementProduct
    \/ selectPlacementProductAgain
    \/ PageAddsVariable
    \/ operateVariables

SpecSelect == Init /\ [][NextSelect]_vars

\* The checkout of one page load: bootstrap, the checkout markup of the page,
\* paymentForm() and what follows it in the provider form.
NextForm ==
    \/ init
    \/ DocumentReady
    \/ ShaResolves
    \/ CreateUserResolves
    \/ PageAddsSubmit
    \/ PageAddsForm
    \/ paymentForm
    \/ paymentFormAgain
    \/ LoadStripeResolves
    \/ LoadStripeRejects
    \/ CreateSubscriptionResolves
    \/ CreateSubscriptionRejects
    \/ ProviderReady
    \/ ProviderLoadError
    \/ Submit
    \/ ElementsSubmitResolves
    \/ ConfirmPaymentResolves
    \/ RedirectFires

SpecForm == Init /\ [][NextForm]_vars

\* One page load on which every create-user call returns a session: init(),
\* tracking, delivery and the session refresh after each delivery.  The
\* browser runs a ready document callback, a due timer and the continuation
\* of a settled promise; the create-user and ingestion calls are answered.
NextLive ==
    \/ init
    \/ DocumentReady
    \/ Track
    \/ TimerFires
    \/ ShaResolves
    \/ CreateUserResolves
    \/ CreateEventResolves
    \/ CreateEventRejects

SpecLive ==
    /\ Init
    /\ [][NextLive]_vars
    /\ WF_vars(init)
    /\ WF_vars(DocumentReady)
    /\ WF_vars(TimerFires)
    /\ WF_vars(ShaResolves)
    /\ WF_vars(CreateUserResolves)
    /\ WF_vars(CreateEventResolves \/ CreateEventRejects)

\* ------------------------------------------------------------- claims
QueuedIds == {queue[i].id : i \in 1..Len(queue)}
RanIds    == {ran[i].id : i \in 1..Len(ran)}
\* the position of callback id in the order of execution (0: it has not run)
RanAt(id) == IF id \in RanIds THEN CHOOSE i \in 1..Len(ran) : ran[i].id = id ELSE 0

\* C1: every callback handed to ready() is either still queued or has run,
\* none has run twice, and callbacks run in the order they were handed to
\* ready(): no callback runs before one that was submitted earlier.
C1_OnceInSubmissionOrder ==
    /\ \A id \in 1..(nextCb - 1) : id \in QueuedIds \cup RanIds
    /\ \A i, j \in 1..Len(ran) : i < j => ran[i].id < ran[j].id
    /\ \A q \in QueuedIds : \A r \in RanIds : r < q

\* C2: no callback handed to ready() has run unless a create-user call issued
\* by initializeApp() has returned (initializeApp then calls setReady()).
C2_GateClosedUntilBootstrap ==
    ran # <<>> => passes > 0

\* C3: when a callback throws while setReady() drains the queue, the callbacks
\* queued after it still run in that drain and the gate ends open.
C3_ThrowDoesNotBlockDrain ==
    lastDrain.threw => lastDrain.left = 0 /\ lastDrain.open

\* C4: a ready() call made from inside a callback that setReady() is draining
\* runs within the same setReady() pass, after every callback that was queued
\* before it, and is not left in the queue.
C4_ReentrantReadySamePass ==
    \A r \in reent :
        /\ r.id \notin QueuedIds
        /\ RanAt(r.id) > 0 /\ ran[RanAt(r.id)].pass = r.pass
        /\ \A b \in r.behind : RanAt(b) > 0 /\ RanAt(b) < RanAt(r.id)

\* nothing is pending that could open the gate again
Quiescent ==
    initDone /\ ~docPending /\ calls = {} /\ deliveries = {} /\ timers = <<>>

\* C5: after a create-user call has rejected, the gate is not left closed with
\* nothing pending unless an error has been reported.
C5_RejectionReported ==
    (rejected /\ Quiescent /\ ~isReady) => errors # {}

\* C6: a record leaves the backlog only on the success of the ingestion call
\* for that same record: each removal removes the record that was delivered.
C6_RemovedOnlyAfterOwnSuccess ==
    \A r \in removals : r.removed = r.by /\ r.removed \in delivered

\* C7: when an ingestion request for a record is issued, the record is in the
\* backlog persisted in storage.
C7_PersistedWhenSent ==
    \A r \in issued : r.persisted

\* no track() call or delivery is part-way through, and every record of the
\* backlog can be written as JSON
BacklogIdle ==
    /\ initDone /\ timers = <<>> /\ deliveries = {}
    /\ \A i \in 1..Len(queue) : queue[i].kind \notin {"enqueue", "send"}
    /\ CanSerialise(Cur)

EventKeys == {"insert_id", "properties", "user_id", "device_id"}

\* the backlog read back from storage has the records of the in-memory
\* backlog, in the same order, with the same value for every field
SameBacklog ==
    LET json == ParseEvents(cookies)
    IN  /\ Len(json) = Len(eventQueue)
        /\ \A i \in 1..Len(eventQueue) : \A k \in EventKeys :
              Get(json[i], k) = Get(heap[eventQueue[i]], k)

\* C8: whenever no track() or delivery step is part-way through, the backlog
\* read back from storage equals the in-memory backlog, field by field.
C8_StorageMatchesMemory ==
    BacklogIdle => SameBacklog

BacklogIds == {heap[eventQueue[i]].insert_id : i \in 1..Len(eventQueue)}

\* C9: a record that was in the persisted backlog when init() ran stays in the
\* backlog until an ingestion call for it has succeeded.
C9_ReplayedKeptUntilDelivered ==
    \A e \in replayed : e \notin BacklogIds => e \in delivered

\* C10: a paymentForm() callback that runs when the gate opens (in a drain of
\* setReady()) finds the placement list populated from the resolved session.
C10_PlacementsBeforeDrain ==
    \A i \in 1..Len(formRuns) :
        formRuns[i].pass > 0 => formRuns[i].placements = formRuns[i].session

\* ------------------------------------------------- claims on the selection
\* the placement a selection call named, in the placement list it was made on
Named(r) == findPlacementByID([placements |-> r.placements], r.placementID)
\* the call was made on the session of one placement, one paywall, two products
OnSession(r) == r.placements = <<Placement1>>
SelectsItem1(r) == OnSession(r) /\ r.placementID = "p1" /\ r.productIndex = 1
SelectsUnknown(r) == OnSession(r) /\ Named(r) = NoPlacement

\* C11: on the session of one placement with one paywall of two products,
\* currentProduct() is item 0 while nothing was selected, item 1 after
\* selectPlacementProduct("p1", 1), and still item 1 after a further
\* selectPlacementProduct with an unknown placement id.
C11_SelectionScenario ==
    /\ (placements = <<Placement1>> /\ selects = <<>>) => currentProduct(Cur) = ProductA
    /\ \A i \in 1..Len(selects) : SelectsItem1(selects[i]) => selects[i].after = ProductB
    /\ \A i \in 2..Len(selects) :
          (SelectsItem1(selects[i - 1]) /\ SelectsUnknown(selects[i]))
              => /\ selects[i].after = ProductB
                 /\ (i = Len(selects) => currentProduct(Cur) = ProductB)

C11_Witness ==
    /\ Len(selects) = 2
    /\ SelectsItem1(selects[1]) /\ SelectsUnknown(selects[2])
    /\ currentProduct(Cur) = ProductB

\* some placement of the list has a paywall with an item
HasOffer ==
    \E i \in 1..Len(placements) : \E j \in 1..Len(placements[i].paywalls) :
        Len(placements[i].paywalls[j].items) > 0

\* C12: currentPlacement(), currentPaywall() and currentProduct() return the
\* explicit selection when set, otherwise the first element of the parent
\* collection, otherwise no value; and each returns a value whenever the
\* placement list holds a placement with a paywall with an item.
C12_FallbackChain ==
    /\ _currentPlacement # NoPlacement => currentPlacement(Cur) = _currentPlacement
    /\ _currentPaywall # NoPaywall => currentPaywall(Cur) = _currentPaywall
    /\ _currentProduct # NoProduct => currentProduct(Cur) = _currentProduct
    /\ (_currentPlacement = NoPlacement /\ placements # <<>>)
          => currentPlacement(Cur) = placements[1]
    /\ (_currentPlacement = NoPlacement /\ placements = <<>>)
          => currentPlacement(Cur) = NoPlacement
    /\ HasOffer => /\ currentPlacement(Cur) # NoPlacement
                   /\ currentPaywall(Cur) # NoPaywall
                   /\ currentProduct(Cur) # NoProduct

\* the call named a placement of the list and an index past the items of its
\* first paywall
OutOfRange(r) ==
    /\ Named(r) # NoPlacement /\ Len(Named(r).paywalls) > 0
    /\ r.productIndex >= Len(Named(r).paywalls[1].items)

\* C13 as stated: after selectPlacementProduct with a known placement id and
\* an index out of the range of its first paywall, currentProduct() reports
\* no product.
C13_OutOfRangeNoProduct ==
    \A i \in 1..Len(selects) : OutOfRange(selects[i]) => selects[i].after = NoProduct

\* C13 amended: such a call raises no error and leaves no explicitly selected
\* product, and currentProduct() afterwards falls back to the first item of
\* the placement's first paywall.
C13_OutOfRangeFallsBack ==
    \A i \in 1..Len(selects) :
        OutOfRange(selects[i])
            => /\ selects[i].explicit = NoProduct
               /\ selects[i].after = ItemAt(Named(selects[i]).paywalls[1].items, 0)

C13_Witness ==
    \E i \in 1..Len(selects) :
        /\ OutOfRange(selects[i])
        /\ selects[i].explicit = NoProduct /\ selects[i].after = ProductA

\* the value at the path in the bag of a product, no value without a product
BagValue(product, path) ==
    IF product = NoProduct \/ product.properties = Undefined THEN Null
    ELSE getValueByPath(product.properties, path)

\* C14: a variable given by a bare path resolves to the value at that path in
\* the property bag of the product currentProduct() returns, whether or not a
\* selection was persisted.
C14_BarePathUsesCurrentProduct ==
    \A l \in lookups :
        (l.key.parts = 1 /\ ~l.threw) => l.value = BagValue(l.current, l.key.path)

\* C15: resolving a variable never raises, whatever the key and the session.
C15_LookupNeverThrows ==
    \A l \in lookups : ~l.threw

\* ------------------------------------------------- claims on the checkout
Events(name, f) == {e \in formEvents : e.name = name /\ e.form = f}
EventsOf(name, sub) == {e \in formEvents : e.name = name /\ e.sub = sub}
HappyPath == <<"creating_subscription", "awaiting_provider_init", "form_ready",
               "submitting", "confirmed">>
\* form f is the only form shown, its provider reported readiness, no step of
\* it failed and its submission was confirmed
SucceededAlone(f) ==
    /\ Len(forms) = 1
    /\ forms[f].trace # <<>> /\ forms[f].trace[Len(forms[f].trace)] = "confirmed"
    /\ \A i \in 1..Len(forms[f].trace) : forms[f].trace[i] # "failed"
    /\ Events("payment_form_ready", f) # {}

\* C16: when the only show() call of the page has its subscription created,
\* its provider report readiness and its submission confirmed without error,
\* the attempt has passed through creating_subscription,
\* awaiting_provider_init, form_ready, submitting and confirmed in that
\* order, one payment_success was emitted and one redirect is set or done.
C16_EndToEndSuccess ==
    \A f \in 1..Len(forms) :
        SucceededAlone(f)
            => /\ forms[f].trace = HappyPath
               /\ Cardinality(Events("payment_success", f)) = 1
               /\ Cardinality({e \in formEvents : e.name = "payment_success"}) = 1
               /\ navTimers + navigations = 1

C16_Witness ==
    /\ SucceededAlone(1) /\ forms[1].trace = HappyPath
    /\ navigations = 1 /\ navTimers = 0

\* C17: when the confirmation of a submission returns an error, exactly one
\* payment_failure is emitted for that submission, no payment_success (and so
\* no redirect) is, and the handler leaves the submit control enabled with
\* the text it had before the checkout started.
C17_ConfirmationFailure ==
    \A o \in outcomes :
        (o.sub > 0 /\ o.error)
            => /\ Cardinality(EventsOf("payment_failure", o.sub)) = 1
               /\ EventsOf("payment_success", o.sub) = {}
               /\ ~o.disabled /\ o.innerText = dom.original

\* C18: when the subscription of an attempt is not created, the attempt is
\* failed with the submit control enabled, one payment_failure emitted, no
\* provider UI initialised, no submit handler installed and no confirmation
\* request issued for it.
C18_CreationFailure ==
    \A f \in 1..Len(forms) :
        forms[f].created = "failed"
            => /\ forms[f].trace = <<"creating_subscription", "failed">>
               /\ \E o \in outcomes : o.form = f /\ o.sub = 0 /\ ~o.disabled
               /\ Cardinality(Events("payment_failure", f)) = 1
               /\ ~forms[f].paymentElement /\ ~forms[f].mounted
               /\ forms[f].elements = Undefined
               /\ \A i \in 1..Len(dom.listeners) : dom.listeners[i] # f
               /\ \A r \in confirmReqs : r.form # f

\* the second attempt failed to create its subscription after the first was
\* set up, and the form was submitted since
C18_Witness ==
    /\ Len(forms) = 2 /\ forms[2].created = "failed" /\ forms[1].mounted
    /\ confirmReqs # {}
    /\ \E o \in outcomes : o.form = 2 /\ o.sub = 0 /\ ~o.disabled /\ o.innerText = "Pay"

\* C19: a submission of the form issues exactly one confirmation request,
\* and it is for the newest attempt shown before the submission, with the
\* client secret of that attempt's subscription.
C19_OneCurrentAttempt ==
    \A r \in confirmReqs :
        /\ r.form = submissions[r.sub]
        /\ r.clientSecret = ClientSecret(submissions[r.sub])
        /\ \A r2 \in confirmReqs : r2.sub = r.sub => r2 = r

\* something is pending that re-enables the submit control or ends the
\* attempt: the creation of a subscription, the report of a mounted payment
\* element, or the validation or confirmation of a submission
WillReEnable ==
    \/ \E q \in pending : q.kind \in {"create", "validate", "confirm"}
    \/ \E f \in 1..Len(forms) : forms[f].mounted /\ ~forms[f].reported

Confirmed ==
    \E f \in 1..Len(forms) :
        forms[f].trace # <<>> /\ forms[f].trace[Len(forms[f].trace)] = "confirmed"

\* C20: the submit control is never left disabled by show() with no pending
\* operation that will enable it again, unless an attempt is confirmed.
C20_NeverLeftDisabled ==
    (dom.submit /\ dom.disabled) => (WillReEnable \/ Confirmed)

\* ------------------------------------------------- claims on delivery
\* C21: every ingestion request, for a record sent in the session that
\* tracked it or replayed after a reload, carries a defined device identifier,
\* equal to the user id that was persisted when the record was stamped.
C21_RequestsCarryIdentifier ==
    \A r \in issued :
        /\ r.device_id # Undefined
        /\ \E s \in stamps : s.insert_id = r.insert_id /\ s.cookie = r.device_id

\* C22: "ready" is emitted only by the bootstrap that init() started, and at
\* most once for one init() call: the passes of the session refreshes that
\* follow the deliveries open the gate and emit nothing.
C22_ReadyOnlyFromBootstrap ==
    [][readyEmits' # readyEmits =>
          /\ readyEmits = 0
          /\ readyEmits' = 1
          /\ \E c \in calls : c.who = "init" /\ c.pc = "api"
          /\ ~\E c \in calls' : c.who = "init"]_vars

\* two records are delivered, both refreshes have completed and opened the
\* gate, and "ready" has been emitted once
C22_Witness ==
    /\ Cardinality(delivered) = 2
    /\ calls = {}
    /\ passes >= 3
    /\ isReady
    /\ readyEmits = 1

\* the api.createSubscription calls made for form f: the pending ones and the
\* one that has returned
CreateCallsOf(f) ==
    Cardinality({q \in pending : q.kind = "create" /\ q.form = f})
        + (IF forms[f].created = "no" THEN 0 ELSE 1)

\* the confirmation requests of form f
ConfirmsOf(f) == {r \in confirmReqs : r.form = f}

\* C23: submitting again after a failed confirmation confirms against the
\* same subscription's secret and creates no subscription: the
\* create-subscription calls are one per show() that found a submit control,
\* however many times the form is submitted.
C23_ResubmitReusesSubscription ==
    /\ \A f \in 1..Len(forms) :
          CreateCallsOf(f) = IF forms[f].submit THEN 1 ELSE 0
    /\ \A r \in confirmReqs :
          /\ forms[r.form].created = "yes"
          /\ r.clientSecret = ClientSecret(r.form)
          /\ r.clientSecret = forms[r.form].subscription
          /\ r.sub \in 1..Len(submissions)
    /\ \A r \in outcomes :
          r.sub > 0 => \E c \in ConfirmsOf(r.form) : c.sub = r.sub

\* the first confirmation of a form failed, the form was submitted again and
\* the second confirmation request carries the secret of the first
C23_Witness ==
    \E f \in 1..Len(forms) : \E r1, r2 \in ConfirmsOf(f) :
        /\ r1.sub = 1 /\ r2.sub = 2
        /\ r1.clientSecret = r2.clientSecret
        /\ [form |-> f, sub |-> 1, error |-> TRUE] \in
               {[form |-> o.form, sub |-> o.sub, error |-> o.error] : o \in outcomes}
        /\ CreateCallsOf(f) = 1

\* show() of form f has returned at the missing submit control
Aborted(f) == ~forms[f].submit

\* C24: when show() finds no submit control the attempt is aborted and idle:
\* no create-subscription call, no provider UI initialised or mounted, no
\* submit handler installed, neither payment_failure nor payment_form_ready.
C24_NoControlAborts ==
    \A f \in 1..Len(forms) :
        Aborted(f) =>
            /\ forms[f].trace = <<>>
            /\ CreateCallsOf(f) = 0
            /\ forms[f].subscription = Null
            /\ forms[f].elements = Undefined
            /\ ~forms[f].paymentElement
            /\ ~forms[f].mounted
            /\ \A i \in 1..Len(dom.listeners) : dom.listeners[i] # f
            /\ \A q \in pending : q.form = f => q.kind = "load"
            /\ Events("payment_failure", f) = {}
            /\ Events("payment_form_ready", f) = {}
            /\ Events("payment_form_initialized", f) # {}

\* the first show() found no submit control and was aborted; the page then
\* got the control and the second show() went on to mount the provider UI
C24_Witness ==
    /\ Len(forms) = 2
    /\ Aborted(1)
    /\ forms[1].stripe # Null
    /\ forms[2].mounted
    /\ Len(submissions) > 0

\* ------------------------------------------- claims on the selection state
Elements(seq) == {seq[i] : i \in 1..Len(seq)}

\* C25: in every reachable state the resolved selection is coherent: when the
\* accessors return values, currentPaywall() is one of the paywalls of
\* currentPlacement() and currentProduct() is one of the items of
\* currentPaywall().
C25_SelectionCoherent ==
    LET placement == currentPlacement(Cur)
        paywall   == currentPaywall(Cur)
        product   == currentProduct(Cur)
    IN  /\ (placement # NoPlacement /\ paywall # NoPaywall)
               => paywall \in Elements(placement.paywalls)
        /\ (paywall # NoPaywall /\ product # NoProduct)
               => product \in Elements(paywall.items)

\* ------------------------------------------------ claims on gate liveness
\* C26: when every create-user call returns successfully, after finitely many
\* track() calls and whatever the overlap of the session refreshes, the gate
\* is eventually open with an empty callback queue and stays so: every
\* callback handed to ready() is eventually executed.
C26_GateEventuallyOpen == <>[](isReady /\ queue = <<>>)
====
